---- MODULE Spec2Model ----
(***************************************************************************)
(* Graph convolution layers of src/api/gconv.py: l1norm, Gconv,            *)
(* ChannelIndependentConv, Siamese_Gconv, Siamese_ChannelIndependentConv.  *)
(*                                                                         *)
(* Tensors are records [shape, data]: shape is the tuple of dimensions and *)
(* data the elements in row-major order.  Elements are exact numbers       *)
(* <<n, d, k>> standing for (n / d) * eps^k, where eps is the 1e-12 of     *)
(* l1norm; k = 1 gives values of the magnitude of eps, k = 0 ordinary      *)
(* values.  A failed tensor operation yields ShapeError, which every later *)
(* operation propagates, as a raised exception unwinds the forward call.   *)
(***************************************************************************)
EXTENDS Integers, Sequences, FiniteSets, TLC

\* ------------------------------------------------------------------ bounds
MaxBatch == 2
MaxN == 2
MaxFeat == 2
MaxIn == 1
MaxSeed == 1
MaxGraphs == 2
MaxMode == 3

\* ----------------------------------------------------------------- numbers
RECURSIVE Gcd(_, _)
Gcd(a, b) == IF b = 0 THEN a ELSE Gcd(b, a % b)

AbsInt(n) == IF n < 0 THEN -n ELSE n

Num(n, d, k) ==
    IF n = 0 THEN <<0, 1, 0>>
    ELSE LET g == Gcd(AbsInt(n), d) IN <<n \div g, d \div g, k>>

I(n) == Num(n, 1, 0)
Zero == I(0)
One == I(1)

\* eps=1e-12, the default of l1norm's third parameter
Eps == Num(1, 1, 1)

\* a + b; an eps-sized term added to an ordinary one is below float
\* resolution and is absorbed
NumAdd(a, b) ==
    IF a[1] = 0 THEN b
    ELSE IF b[1] = 0 THEN a
    ELSE IF a[3] = b[3] THEN Num(a[1] * b[2] + b[1] * a[2], a[2] * b[2], a[3])
    ELSE IF a[3] < b[3] THEN a ELSE b

NumNeg(a) == <<-a[1], a[2], a[3]>>
NumSub(a, b) == NumAdd(a, NumNeg(b))
NumMul(a, b) == Num(a[1] * b[1], a[2] * b[2], a[3] + b[3])
NumAbs(a) == <<AbsInt(a[1]), a[2], a[3]>>

\* a / b for b # 0
NumDiv(a, b) ==
    IF b[1] < 0 THEN Num(-(a[1] * b[2]), a[2] * (-b[1]), a[3] - b[3])
    ELSE Num(a[1] * b[2], a[2] * b[1], a[3] - b[3])

NumPos(a) == a[1] > 0
\* a < b
NumLess(a, b) ==
    IF a[3] = b[3] \/ a[1] = 0 \/ b[1] = 0 THEN a[1] * b[2] < b[1] * a[2]
    ELSE IF a[1] < 0 /\ b[1] > 0 THEN TRUE
    ELSE IF a[1] > 0 /\ b[1] < 0 THEN FALSE
    ELSE IF a[1] > 0 THEN a[3] > b[3]
    ELSE a[3] < b[3]

NumMax(a, b) == IF NumLess(a, b) THEN b ELSE a
NumReLU(a) == IF a[1] > 0 THEN a ELSE Zero

\* exp(a): exp(0) = 1, any other value stays symbolic (exp is injective)
NumExp(a) == IF a[1] = 0 THEN One ELSE <<a[1], a[2], a[3], "exp">>

\* ----------------------------------------------------------------- tensors
RECURSIVE Prod(_, _)
Prod(s, from) == IF from > Len(s) THEN 1 ELSE s[from] * Prod(s, from + 1)

\* the number of elements of a tensor of this shape
Size(shape) == Prod(shape, 1)

RECURSIVE Off(_, _, _, _)
Off(shape, idx, k, stride) ==
    IF k = 0 THEN 0
    ELSE (idx[k] - 1) * stride + Off(shape, idx, k - 1, stride * shape[k])

\* position of element idx (1-based indices) in the row-major data
Offset(shape, idx) == 1 + Off(shape, idx, Len(shape), 1)

RECURSIVE Unf(_, _, _)
Unf(shape, q, k) ==
    IF k = 0 THEN <<>>
    ELSE Append(Unf(shape, q \div shape[k], k - 1), (q % shape[k]) + 1)

\* the index of the element at position p of the row-major data
Unflatten(shape, p) == Unf(shape, p - 1, Len(shape))

RECURSIVE SumSeq(_)
SumSeq(s) == IF Len(s) = 0 THEN Zero ELSE NumAdd(s[1], SumSeq(Tail(s)))

\* what is left of a tensor once an operation has raised
ShapeError == [shape |-> <<>>, data |-> <<>>]
IsErr(t) == Len(t.data) = 0

Rank(t) == Len(t.shape)
At(t, idx) == t.data[Offset(t.shape, idx)]

Build(shape, F(_)) ==
    [shape |-> shape, data |-> [p \in 1..Size(shape) |-> F(Unflatten(shape, p))]]

Map1(t, Op(_)) ==
    IF IsErr(t) THEN ShapeError
    ELSE [shape |-> t.shape, data |-> [p \in 1..Len(t.data) |-> Op(t.data[p])]]

\* numpy broadcasting: shapes are aligned on their last dimensions
BDim(s, k, r) == LET j == k - (r - Len(s)) IN IF j < 1 THEN 1 ELSE s[j]
BMax(a, b) == IF a < b THEN b ELSE a
BCompatible(s1, s2) ==
    LET r == BMax(Len(s1), Len(s2))
    IN  \A k \in 1..r :
            \/ BDim(s1, k, r) = BDim(s2, k, r)
            \/ BDim(s1, k, r) = 1
            \/ BDim(s2, k, r) = 1
BShape(s1, s2) ==
    LET r == BMax(Len(s1), Len(s2))
    IN  [k \in 1..r |-> BMax(BDim(s1, k, r), BDim(s2, k, r))]
\* the index into an operand of shape s of the element broadcast to idx
BIndex(s, idx) ==
    [j \in 1..Len(s) |-> IF s[j] = 1 THEN 1 ELSE idx[j + (Len(idx) - Len(s))]]

Map2(a, b, Op(_, _)) ==
    IF IsErr(a) \/ IsErr(b) THEN ShapeError
    ELSE IF ~BCompatible(a.shape, b.shape) THEN ShapeError
    ELSE Build(BShape(a.shape, b.shape),
               LAMBDA idx : Op(At(a, BIndex(a.shape, idx)), At(b, BIndex(b.shape, idx))))

\* elementwise operations of the tensor library
Add(a, b) == Map2(a, b, NumAdd)
Sub(a, b) == Map2(a, b, NumSub)
Mul(a, b) == Map2(a, b, NumMul)
Div(a, b) == Map2(a, b, NumDiv)
ReLU(t) == Map1(t, NumReLU)
Abs(t) == Map1(t, NumAbs)
Neg(t) == Map1(t, NumNeg)
Exp(t) == Map1(t, NumExp)
Square(t) == Map1(t, LAMBDA v : NumMul(v, v))
Maximum(t, c) == Map1(t, LAMBDA v : NumMax(v, c))

\* P.ExpandDims()(t, axis): axis counts from 0, negative from the end
ExpandDims(t, axis) ==
    IF IsErr(t) THEN ShapeError
    ELSE LET r == Rank(t)
             pos == (IF axis < 0 THEN axis + r + 1 ELSE axis) + 1
         IN  [shape |-> [k \in 1..(r + 1) |->
                            IF k < pos THEN t.shape[k]
                            ELSE IF k = pos THEN 1 ELSE t.shape[k - 1]],
              data |-> t.data]

\* P.BroadcastTo(shape)(t)
BroadcastTo(shape, t) ==
    IF IsErr(t) THEN ShapeError
    ELSE IF Len(shape) < Rank(t) \/ ~BCompatible(shape, t.shape)
            \/ BShape(shape, t.shape) # shape THEN ShapeError
    ELSE Build(shape, LAMBDA idx : At(t, BIndex(t.shape, idx)))

\* P.Transpose()(t, perm): perm holds 0-based axes
Transpose(t, perm) ==
    IF IsErr(t) THEN ShapeError
    ELSE IF Len(perm) # Rank(t)
            \/ {perm[k] : k \in 1..Len(perm)} # 0..(Rank(t) - 1) THEN ShapeError
    ELSE Build([k \in 1..Len(perm) |-> t.shape[perm[k] + 1]],
               LAMBDA idx : At(t, [j \in 1..Len(perm) |->
                                    idx[CHOOSE k \in 1..Len(perm) : perm[k] + 1 = j]]))

\* np.matmul(a, b) for operands of rank >= 2: the leading dimensions are
\* broadcast, the last two are multiplied as matrices
MatMul(a, b) ==
    IF IsErr(a) \/ IsErr(b) THEN ShapeError
    ELSE LET ra == Rank(a)
             rb == Rank(b)
             ba == SubSeq(a.shape, 1, ra - 2)
             bb == SubSeq(b.shape, 1, rb - 2)
             m == a.shape[ra]
         IN  IF b.shape[rb - 1] # m \/ ~BCompatible(ba, bb) THEN ShapeError
             ELSE LET bs == BShape(ba, bb)
                      rr == Len(bs)
                  IN  Build(bs \o <<a.shape[ra - 1], b.shape[rb]>>,
                            LAMBDA idx :
                              LET bi == SubSeq(idx, 1, rr)
                              IN  SumSeq([l \in 1..m |->
                                    NumMul(At(a, BIndex(ba, bi) \o <<idx[rr + 1], l>>),
                                           At(b, BIndex(bb, bi) \o <<l, idx[rr + 2]>>))]))

\* P.BatchMatMul()(a, b): equal ranks and equal leading dimensions
BatchMatMul(a, b) ==
    IF IsErr(a) \/ IsErr(b) THEN ShapeError
    ELSE IF Rank(a) # Rank(b)
            \/ SubSeq(a.shape, 1, Rank(a) - 2) # SubSeq(b.shape, 1, Rank(b) - 2)
         THEN ShapeError
    ELSE MatMul(a, b)

\* P.ReduceSum(keep_dims)(t, axis)
ReduceSum(t, axis, keep_dims) ==
    IF IsErr(t) THEN ShapeError
    ELSE LET r == Rank(t)
             ax == (IF axis < 0 THEN axis + r ELSE axis) + 1
             kept == [k \in 1..r |-> IF k = ax THEN 1 ELSE t.shape[k]]
             gone == [k \in 1..(r - 1) |-> IF k < ax THEN t.shape[k] ELSE t.shape[k + 1]]
             Total(src) == SumSeq([l \in 1..t.shape[ax] |->
                                    At(t, [k \in 1..r |-> IF k = ax THEN l ELSE src[k]])])
         IN  IF keep_dims THEN Build(kept, Total)
             ELSE Build(gone, LAMBDA idx :
                    Total([k \in 1..r |-> IF k < ax THEN idx[k]
                                          ELSE IF k = ax THEN 1 ELSE idx[k - 1]]))

\* P.ReduceMean(axis)(t) as the source uses it: the mean over one axis,
\* which is then dropped
ReduceMean(t, axis) ==
    IF IsErr(t) THEN ShapeError
    ELSE LET r == Rank(t)
             ax == (IF axis < 0 THEN axis + r ELSE axis) + 1
         IN  Map1(ReduceSum(t, axis, FALSE), LAMBDA v : NumDiv(v, I(t.shape[ax])))

\* nn.Dense: y = x W^T + b over the last axis; layer = [weight, bias] with
\* weight of shape (out_channels, in_channels)
Dense(layer, x) ==
    IF IsErr(x) THEN ShapeError
    ELSE LET r == Rank(x)
             nin == layer.weight.shape[2]
             nout == layer.weight.shape[1]
         IN  IF x.shape[r] # nin THEN ShapeError
             ELSE Build([k \in 1..r |-> IF k = r THEN nout ELSE x.shape[k]],
                        LAMBDA idx :
                          NumAdd(SumSeq([i \in 1..nin |->
                                    NumMul(At(x, [k \in 1..r |-> IF k = r THEN i ELSE idx[k]]),
                                           At(layer.weight, <<idx[r], i>>))]),
                                 At(layer.bias, <<idx[r]>>)))

\* ------------------------------------------------------------------ python
\* tuple(range(a, b))
PyRange(a, b) == [k \in 1..(IF b > a THEN b - a ELSE 0) |-> a + k - 1]

\* how a call ends: it returns a value of some kind (a tensor, a tuple, a
\* list, None) holding items, or it raises
Return(kind, items) == [status |-> "return", kind |-> kind, items |-> items]
Raise(exc) == [status |-> "raise", kind |-> exc, items |-> <<>>]
NoCall == [status |-> "none", kind |-> "none", items |-> <<>>]

Returned(r) == r.status = "return"

\* ------------------------------------------------------------------ l1norm
\* l1norm summing over the last axis whatever dim is
l1norm_LastAxis(A, dim, eps) ==
    LET m0 == ReduceSum(Abs(A), -1, TRUE)
        m == Maximum(m0, eps)
    IN  Div(A, m)

\* lines 9-13
l1norm(A, dim, eps) ==
    LET m0 == ReduceSum(Abs(A), dim, TRUE)
        m == Maximum(m0, eps)
    IN  Div(A, m)

\* ------------------------------------------------------------------- Gconv
\* lines 34-35: the adjacency the neighbour branch uses
GconvAdjacency(A, norm) == IF norm = TRUE THEN l1norm(A, -2, Eps) ELSE A

\* Gconv.construct leaving the adjacency as given when norm is True
GconvForward_Unnormalized(layer, A, x, norm) ==
    LET ax == Dense(layer.a_fc, x)
        ux == Dense(layer.u_fc, x)
    IN  Add(BatchMatMul(A, ReLU(ax)), ReLU(ux))

\* Gconv.construct(A, x, norm): the tensor line 38 computes
GconvForward(layer, A, x, norm) ==
    LET A1 == GconvAdjacency(A, norm)
        ax == Dense(layer.a_fc, x)
        ux == Dense(layer.u_fc, x)
    IN  Add(BatchMatMul(A1, ReLU(ax)), ReLU(ux))

\* self.gconv(*g): g is (A, x) or (A, x, norm); norm defaults to True
GconvApply(layer, g) ==
    LET t == GconvForward(layer, g[1], g[2], IF Len(g) >= 3 THEN g[3] ELSE TRUE)
    IN  IF IsErr(t) THEN Raise("ShapeError") ELSE Return("tensor", <<t>>)

\* ------------------------------------------------- ChannelIndependentConv
\* lines 70-71 and 95-96: the adjacency weighted by the edge features
WeightedAdjacency(A, edge_x) ==
    IF IsErr(edge_x) THEN ShapeError
    ELSE Mul(BroadcastTo(edge_x.shape, ExpandDims(A, -1)), edge_x)

\* the permutation with the two node axes exchanged
Perm1_Exchanged(A) == <<0, 3, 2, 1>> \o PyRange(4, Rank(A))
\* lines 72-73 and 98-99
Perm1(A) == <<0, 3, 1, 2>> \o PyRange(4, Rank(A))
\* lines 74-75 and 100-101
Perm2(node_x) == <<0, 3, 1, 2>> \o PyRange(4, Rank(node_x) + 1)
\* lines 78-79 and 104-105
Perm(node_x) == <<0, 2, 1>> \o PyRange(3, Rank(node_x) - 1)

\* lines 76-77 and 102-103: per (batch, channel), adjacency times features
Propagate(A, node_x) ==
    IF IsErr(A) \/ IsErr(node_x) THEN ShapeError
    ELSE MatMul(Transpose(A, Perm1(A)),
                Transpose(ExpandDims(node_x, 2), Perm2(node_x)))

\* lines 78-80 and 104-106: drop the last axis, back to (batch, N, channel)
Collapse(node_x) ==
    IF IsErr(node_x) THEN ShapeError
    ELSE Transpose(ReduceMean(node_x, -1), Perm(node_x))

\* the combination with the self branch left out
Combine_NoSelf(node_x, node_sx) == ReLU(node_x)

\* lines 81 and 107: the aggregated branch plus the self branch
Combine(node_x, node_sx) == Add(ReLU(node_x), ReLU(node_sx))

\* the distance with the differences summed unsquared
Distance_Unsquared(node_x) ==
    LET d == Sub(ExpandDims(node_x, 1), ExpandDims(node_x, 2))
    IN  Exp(Neg(ReduceSum(d, 3, FALSE)))

\* lines 91-93: exp(-|x_i - x_j|^2) for every pair of nodes
Distance(node_x) ==
    LET d == Sub(ExpandDims(node_x, 1), ExpandDims(node_x, 2))
    IN  Exp(Neg(ReduceSum(Square(d), 3, FALSE)))

\* the value of a return statement, or the exception an operation raised
ReturnTuple(items) ==
    IF \E k \in 1..Len(items) : IsErr(items[k]) THEN Raise("ShapeError")
    ELSE Return("tuple", items)

\* lines 66-84
CICMode1(layer, A, emb_node, emb_edge) ==
    LET node_x == Dense(layer.node_fc, emb_node)
        node_sx == Dense(layer.node_sfc, emb_node)
        edge_x == Dense(layer.edge_fc, emb_edge)
        A1 == WeightedAdjacency(A, edge_x)
        node_x1 == Collapse(Propagate(A1, node_x))
    IN  ReturnTuple(<<Combine(node_x1, node_sx), ReLU(edge_x)>>)

\* lines 87-109
CICMode2(layer, A, emb_node, emb_edge) ==
    LET node_x == Dense(layer.node_fc, emb_node)
        node_sx == Dense(layer.node_sfc, emb_node)
        edge_x == Dense(layer.edge_fc, emb_edge)
        d_x == Distance(node_x)
        A1 == WeightedAdjacency(A, edge_x)
        node_x1 == Collapse(Propagate(A1, node_x))
    IN  ReturnTuple(<<Combine(node_x1, node_sx), ReLU(edge_x), d_x>>)

\* ChannelIndependentConv.construct(A, emb_node, emb_edge, mode): with any
\* other mode neither branch is taken and the function ends without a
\* return statement, which yields None
CICForward(layer, A, emb_node, emb_edge, mode) ==
    IF mode = 1 THEN CICMode1(layer, A, emb_node, emb_edge)
    ELSE IF mode = 2 THEN CICMode2(layer, A, emb_node, emb_edge)
    ELSE Return("None", <<>>)

\* self.gconvN(*g): g is (A, emb_node, emb_edge) or (A, emb_node, emb_edge, mode)
CICApply(layer, g) ==
    CICForward(layer, g[1], g[2], g[3], IF Len(g) >= 4 THEN g[4] ELSE 1)

\* ---------------------------------------------------------- Siamese_Gconv
\* Siamese_Gconv.construct returning its results last input first
SiameseGconv_Reversed(layers, g1, args) ==
    LET gs == <<g1>> \o args
        rs == [k \in 1..Len(gs) |-> GconvApply(layers.gconv, gs[k])]
        bad == {k \in 1..Len(gs) : ~Returned(rs[k])}
        stop == IF bad = {} THEN Len(gs)
                ELSE CHOOSE k \in bad : \A j \in bad : k <= j
    IN  [ret |-> IF bad # {} THEN rs[stop]
                 ELSE IF Len(args) = 0 THEN rs[1]
                 ELSE Return("list", [k \in 1..Len(gs) |-> rs[Len(gs) + 1 - k].items[1]]),
         applied |-> [k \in 1..stop |-> <<"gconv", k>>]]

\* Siamese_Gconv.construct(g1, *args): [ret, applied].  self.gconv is
\* applied to g1 and then to each of args in order; a raise ends the call
SiameseGconv(layers, g1, args) ==
    LET gs == <<g1>> \o args
        rs == [k \in 1..Len(gs) |-> GconvApply(layers.gconv, gs[k])]
        bad == {k \in 1..Len(gs) : ~Returned(rs[k])}
        stop == IF bad = {} THEN Len(gs)
                ELSE CHOOSE k \in bad : \A j \in bad : k <= j
    IN  [ret |-> IF bad # {} THEN rs[stop]
                 ELSE IF Len(args) = 0 THEN rs[1]
                 ELSE Return("list", [k \in 1..Len(gs) |-> rs[k].items[1]]),
         applied |-> [k \in 1..stop |-> <<"gconv", k>>]]

\* ------------------------------------------ Siamese_ChannelIndependentConv
\* a, b = r : r must be a sequence of exactly two values
Unpack2(r) ==
    IF ~Returned(r) THEN r
    ELSE IF r.kind = "None" THEN Raise("TypeError")
    ELSE IF Len(r.items) # 2 THEN Raise("ValueError")
    ELSE r

None == [some |-> FALSE, val |-> <<>>]
Some(v) == [some |-> TRUE, val |-> v]

\* Siamese_ChannelIndependentConv.construct applying gconv1 to both graphs
SiameseCIC_OneLayer(layers, g1, g2) ==
    LET r1 == Unpack2(CICApply(layers.gconv1, g1))
    IN  IF ~Returned(r1) THEN [ret |-> r1, applied |-> <<"gconv1">>]
        ELSE IF ~g2.some THEN
            [ret |-> Return("tuple", <<r1.items[1], r1.items[2]>>),
             applied |-> <<"gconv1">>]
        ELSE LET r2 == Unpack2(CICApply(layers.gconv1, g2.val))
             IN  [ret |-> IF ~Returned(r2) THEN r2
                          ELSE Return("tuple", <<r1.items[1], r2.items[1],
                                                 r1.items[2], r2.items[2]>>),
                  applied |-> <<"gconv1", "gconv2">>]

\* Siamese_ChannelIndependentConv.construct(g1, g2=None): [ret, applied]
SiameseCIC(layers, g1, g2) ==
    LET r1 == Unpack2(CICApply(layers.gconv1, g1))
    IN  IF ~Returned(r1) THEN [ret |-> r1, applied |-> <<"gconv1">>]
        ELSE IF ~g2.some THEN
            [ret |-> Return("tuple", <<r1.items[1], r1.items[2]>>),
             applied |-> <<"gconv1">>]
        ELSE LET r2 == Unpack2(CICApply(layers.gconv2, g2.val))
             IN  [ret |-> IF ~Returned(r2) THEN r2
                          ELSE Return("tuple", <<r1.items[1], r2.items[1],
                                                 r1.items[2], r2.items[2]>>),
                  applied |-> <<"gconv1", "gconv2">>]

\* ----------------------------------------------------------- construction
\* nn.Dense(in_channels, out_channels): seed 0 sets every weight to 1 and
\* every bias to 0; other seeds give mixed signs, differing per layer (salt)
DenseInit(nin, nout, seed, salt) ==
    [weight |-> Build(<<nout, nin>>, LAMBDA idx :
                    IF seed = 0 THEN One
                    ELSE I(((idx[1] + 2 * idx[2] + salt + seed) % 3) - 1)),
     bias |-> Build(<<nout>>, LAMBDA idx :
                    IF seed = 0 THEN Zero ELSE I((idx[1] + salt + seed) % 2))]

\* Gconv.__init__(in_features, out_features)
GconvInit(in_features, out_features, seed, salt) ==
    [a_fc |-> DenseInit(in_features, out_features, seed, salt),
     u_fc |-> DenseInit(in_features, out_features, seed, salt + 1)]

\* ChannelIndependentConv.__init__(in_features, out_features, in_edges, out_edges)
\* out_edges = 0 stands for None
CICInit(in_features, out_features, in_edges, out_edges, seed, salt) ==
    LET oe == IF out_edges = 0 THEN out_features ELSE out_edges
    IN  [in_features |-> in_features,
         out_features |-> out_features,
         out_edges |-> oe,
         node_fc |-> DenseInit(in_features, out_features, seed, salt),
         node_sfc |-> DenseInit(in_features, out_features, seed, salt + 1),
         edge_fc |-> DenseInit(in_edges, oe, seed, salt + 2)]

\* Siamese_Gconv.__init__ and Siamese_ChannelIndependentConv.__init__
LayersInit(c, seed) ==
    [gconv |-> GconvInit(c.in_features, c.out_features, seed, 0),
     gconv1 |-> CICInit(c.in_features, c.out_features, c.in_edges, c.out_edges, seed, 2),
     gconv2 |-> CICInit(c.in_features, c.out_features, c.in_edges, c.out_edges, seed, 5)]

\* ------------------------------------------------------------ the inputs
\* adjacency (batch, n, n) with entries in {0, 1}: seed 0 links i and j
\* when i + j is odd, other seeds are not symmetric
AdjInput(c, seed) ==
    Build(<<c.bs, c.n, c.n>>, LAMBDA idx :
        IF seed = 0 THEN I((idx[2] + idx[3]) % 2)
        ELSE IF (idx[1] + idx[2] + 2 * idx[3] + seed) % 3 = 0 THEN Zero ELSE One)

\* the adjacency in which each node is connected only to itself
IdentityAdj(c) ==
    Build(<<c.bs, c.n, c.n>>, LAMBDA idx : IF idx[2] = idx[3] THEN One ELSE Zero)

\* node embedding (batch, n, in_features)
NodeInput(c, seed) ==
    Build(<<c.bs, c.n, c.in_features>>, LAMBDA idx :
        IF seed = 0 THEN I(idx[2] + (idx[3] - 1) + (idx[1] - 1))
        ELSE I(((idx[1] + idx[2] + 2 * idx[3] + seed) % 4) - 1))

\* edge embedding (batch, n, n, in_edges)
EdgeInput(c, seed) ==
    Build(<<c.bs, c.n, c.n, c.in_edges>>, LAMBDA idx :
        IF seed = 0 THEN I(((idx[2] + idx[3]) % 2) + (idx[4] - 1) + (idx[1] - 1))
        ELSE I(((idx[1] + idx[2] + 2 * idx[3] + idx[4] + seed) % 3) - 1))

\* a graph of the caller: adjacency, node embedding, edge embedding
GraphInput(c, seed) ==
    [A |-> AdjInput(c, seed), x |-> NodeInput(c, seed), e |-> EdgeInput(c, seed)]

\* the caller's graphs: two generated ones, and the first with the
\* identity adjacency
GraphsInput(c, seed) ==
    <<GraphInput(c, seed), GraphInput(c, seed + 1),
      [GraphInput(c, seed) EXCEPT !.A = IdentityAdj(c)]>>

\* a non-negative tensor (batch, n, n) with entries between 0 and 3 eps,
\* in steps of eps / 2
SoftInput(c, seed) ==
    Build(<<c.bs, c.n, c.n>>, LAMBDA idx :
        Num(((idx[2] + 2 * idx[3] + seed) % 4) * idx[1], 2, 1))

\* the sizes of one construction: in_edges is taken equal to in_features;
\* out_edges is left out (0 stands for None) or given and different from
\* out_features
AllConfigs ==
    [bs : 1..MaxBatch, n : 1..MaxN, in_features : 1..MaxIn, in_edges : 1..MaxIn,
     out_features : 1..MaxFeat, out_edges : 0..(MaxFeat + 1)]
Configs ==
    {c \in AllConfigs : c.in_edges = c.in_features /\ c.out_edges # c.out_features}

\* the sizes of the regression fixture: batch=1, N=2, every width 1
FixtureConfig ==
    [bs |-> 1, n |-> 2, in_features |-> 1, in_edges |-> 1,
     out_features |-> 1, out_edges |-> 0]

\* ------------------------------------------------------------------- state
VARIABLES
    cfg,      \* the sizes the layers and the inputs were built with
    seed,     \* the values the layers and the inputs were built with
    layers,   \* the parameters of the constructed layers
    graphs,   \* the caller's graphs; the third has the identity adjacency
    soft,     \* a caller's tensor with entries of the magnitude of eps
    call,     \* the last call made: [op, a]
    ret,      \* how the last call ended
    applied   \* the inner layers the last call applied, in order

vars == <<cfg, seed, layers, graphs, soft, call, ret, applied>>

\* seed 0 is the regression fixture (all weights 1, all biases 0, its
\* graph first); the other seeds build every configuration
Init ==
    /\ cfg \in Configs
    /\ seed \in 0..MaxSeed
    /\ seed = 0 => cfg = FixtureConfig
    /\ layers = LayersInit(cfg, seed)
    /\ graphs = GraphsInput(cfg, seed)
    /\ soft = SoftInput(cfg, seed)
    /\ call = [op |-> "none", a |-> <<>>]
    /\ ret = NoCall
    /\ applied = <<>>

\* the tensor a call of l1norm is given: 1 is the adjacency of the first
\* graph, 2 the eps-sized tensor
L1Source(src) == IF src = 1 THEN graphs[1].A ELSE soft

\* the tuple (A, x) or (A, x, norm) the caller passes for graph g;
\* norm = -1 leaves it out; g = 0 is the first graph with the eps-sized
\* tensor as its soft adjacency
GconvArg(g, norm) ==
    LET A == IF g = 0 THEN soft ELSE graphs[g].A
        x == IF g = 0 THEN graphs[1].x ELSE graphs[g].x
    IN  IF norm = -1 THEN <<A, x>> ELSE <<A, x, norm = 1>>

\* the tuple (A, emb_node, emb_edge) or (A, emb_node, emb_edge, mode) the
\* caller passes for graph g; mode = 0 leaves it out
CICArg(g, mode) ==
    IF mode = 0 THEN <<graphs[g].A, graphs[g].x, graphs[g].e>>
    ELSE <<graphs[g].A, graphs[g].x, graphs[g].e, mode>>

\* the graphs of a call of Siamese_Gconv: the first graph, then the
\* second graph and the first in turn
SiameseGconvArgs(k, second, norm) ==
    [j \in 1..k |-> GconvArg(IF j % 2 = 0 THEN second ELSE 1, norm)]

\* the second argument of a call of Siamese_ChannelIndependentConv:
\* m2 = -1 passes no second graph
SiameseCICArg2(m2) == IF m2 = -1 THEN None ELSE Some(CICArg(2, m2))

\* what each operation yields: [ret, applied]
L1normOut(src, dim) ==
    LET t == l1norm(L1Source(src), dim, Eps)
    IN  [ret |-> IF IsErr(t) THEN Raise("ShapeError") ELSE Return("tensor", <<t>>),
         applied |-> <<>>]
GconvOut(g, norm) ==
    [ret |-> GconvApply(layers.gconv, GconvArg(g, norm)), applied |-> <<>>]
CICOut(g, mode) ==
    [ret |-> CICApply(layers.gconv1, CICArg(g, mode)), applied |-> <<>>]
SiameseGconvOut(k, second, norm) ==
    LET gs == SiameseGconvArgs(k, second, norm)
    IN  SiameseGconv(layers, gs[1], Tail(gs))
SiameseCICOut(m1, m2) ==
    SiameseCIC(layers, CICArg(1, m1), SiameseCICArg2(m2))

\* a call of Gconv that normalizes the caller's adjacency in place
Finish_InPlace(op, a, out) ==
    /\ call' = [op |-> op, a |-> a]
    /\ ret' = out.ret
    /\ applied' = out.applied
    /\ graphs' = IF op = "Gconv"
                 THEN [graphs EXCEPT ![1].A = l1norm(@, -2, Eps)]
                 ELSE graphs
    /\ UNCHANGED <<cfg, seed, layers, soft>>

\* a forward call records what was called and what came of it; the layers
\* and the caller's tensors are only read
Finish(op, a, out) ==
    /\ call' = [op |-> op, a |-> a]
    /\ ret' = out.ret
    /\ applied' = out.applied
    /\ UNCHANGED <<cfg, seed, layers, graphs, soft>>

\* l1norm(A, dim)
L1normCall ==
    \E src \in 1..2, dim \in {-2, -1} :
        \E out \in {L1normOut(src, dim)} : Finish("l1norm", <<src, dim>>, out)

\* gconv(A, x) or gconv(A, x, norm)
GconvCall ==
    \E g \in {0, 1, 3}, norm \in -1..0 :
        \E out \in {GconvOut(g, norm)} : Finish("Gconv", <<g, norm>>, out)

\* gconv1(A, emb_node, emb_edge, mode)
CICCall ==
    \E mode \in 1..MaxMode :
        \E out \in {CICOut(1, mode)} : Finish("CIC", <<1, mode>>, out)

\* siamese_gconv(g1, *args)
SiameseGconvCall ==
    \E k \in 1..MaxGraphs, second \in 1..2, norm \in -1..0 :
        /\ k = 1 => second = 1
        /\ k > 1 => norm = -1
        /\ \E out \in {SiameseGconvOut(k, second, norm)} :
                Finish("Siamese_Gconv", <<k, second, norm>>, out)

\* siamese_cic(g1) or siamese_cic(g1, g2)
SiameseCICCall ==
    \E m1 \in {0} \cup 2..MaxMode, m2 \in -1..0 :
        /\ m1 # 0 => m2 = 0
        /\ \E out \in {SiameseCICOut(m1, m2)} :
                Finish("Siamese_CIC", <<m1, m2>>, out)

Next ==
    \/ L1normCall
    \/ GconvCall
    \/ CICCall
    \/ SiameseGconvCall
    \/ SiameseCICCall

Spec == Init /\ [][Next]_vars

\* ================================================================== claims
\* the arguments of the last call, when it was a direct call of gconv1
CICGraph == graphs[call.a[1]]
CICMode == call.a[2]
IsCIC(modes) == call.op = "CIC" /\ CICMode \in modes

\* C1: a call of ChannelIndependentConv with a mode outside {1, 2} raises
\* InvalidModeError; it never completes normally.
C1_InvalidModeRaises ==
    (call.op = "CIC" /\ CICMode \notin {1, 2}) =>
        (ret.status = "raise" /\ ret.kind = "InvalidModeError")

\* the smaller of two widths
MinWidth(a, b) == IF a < b THEN a ELSE b

\* sum over j of A[b,i,j] * ex[b,i,j,c] * nx[b,j,c]
Neighbours(A, ex, nx, b, i, c) ==
    SumSeq([j \in 1..A.shape[3] |->
        NumMul(NumMul(At(A, <<b, i, j>>), At(ex, <<b, i, j, c>>)), At(nx, <<b, j, c>>))])

\* C2: in mode 1 and in mode 2, for every batch b, node i and channel c,
\* node_out[b,i,c] = ReLU(sum_j A[b,i,j] * ex[b,i,j,c] * nx[b,j,c]) +
\* ReLU(sx[b,i,c]) with nx = node_fc(emb_node), sx = node_sfc(emb_node),
\* ex = edge_fc(emb_edge); the edge output is ReLU(ex); and the node and
\* edge outputs of mode 2 are those of mode 1.  The channels are those
\* that nx and ex both have.
C2_Aggregation ==
    (IsCIC({1, 2}) /\ Returned(ret)) =>
        \A nx \in {Dense(layers.gconv1.node_fc, CICGraph.x)},
           sx \in {Dense(layers.gconv1.node_sfc, CICGraph.x)},
           ex \in {Dense(layers.gconv1.edge_fc, CICGraph.e)} :
            /\ ret.items[2] = ReLU(ex)
            /\ \A b \in 1..cfg.bs, i \in 1..cfg.n,
                  c \in 1..MinWidth(nx.shape[3], ex.shape[4]) :
                    At(ret.items[1], <<b, i, c>>) =
                        NumAdd(NumReLU(Neighbours(CICGraph.A, ex, nx, b, i, c)),
                               NumReLU(At(sx, <<b, i, c>>)))
            /\ CICMode = 2 =>
                \A m1 \in {CICMode1(layers.gconv1, CICGraph.A, CICGraph.x, CICGraph.e)} :
                    /\ Returned(m1)
                    /\ ret.items[1] = m1.items[1]
                    /\ ret.items[2] = m1.items[2]

\* a mode 2 call on two nodes and two channels whose aggregation is neither
\* zero nor what the transposed adjacency would give
C2_Witness ==
    /\ IsCIC({2}) /\ Returned(ret)
    /\ cfg.bs = 2 /\ cfg.n = 2 /\ cfg.out_features = 2 /\ cfg.out_edges = 0
    /\ \A nx \in {Dense(layers.gconv1.node_fc, CICGraph.x)},
          ex \in {Dense(layers.gconv1.edge_fc, CICGraph.e)},
          tA \in {Transpose(CICGraph.A, <<0, 2, 1>>)},
          ext \in {Transpose(Dense(layers.gconv1.edge_fc, CICGraph.e), <<0, 2, 1, 3>>)} :
            \E b \in 1..2, i \in 1..2, c \in 1..2 :
                /\ NumPos(Neighbours(CICGraph.A, ex, nx, b, i, c))
                /\ Neighbours(CICGraph.A, ex, nx, b, i, c) # Neighbours(tA, ext, nx, b, i, c)

\* C3: mode 1 returns a node embedding of shape (batch, N, out_features) and
\* an edge embedding of shape (batch, N, N, out_edges) for every choice of
\* the widths, out_edges different from out_features included.
C3_Mode1Shapes ==
    IsCIC({1}) =>
        /\ Returned(ret)
        /\ ret.items[1].shape = <<cfg.bs, cfg.n, layers.gconv1.out_features>>
        /\ ret.items[2].shape = <<cfg.bs, cfg.n, cfg.n, layers.gconv1.out_edges>>

\* the tensors of the regression fixture
FixtureA == [shape |-> <<1, 2, 2>>, data |-> <<I(0), I(1), I(1), I(0)>>]
FixtureNode == [shape |-> <<1, 2, 1>>, data |-> <<I(1), I(2)>>]
FixtureEdge == [shape |-> <<1, 2, 2, 1>>, data |-> <<I(0), I(1), I(1), I(0)>>]
FixtureOnes(l) ==
    /\ \A p \in 1..Len(l.weight.data) : l.weight.data[p] = One
    /\ \A p \in 1..Len(l.bias.data) : l.bias.data[p] = Zero
IsFixtureCall ==
    /\ IsCIC({1})
    /\ cfg = FixtureConfig
    /\ FixtureOnes(layers.gconv1.node_fc)
    /\ FixtureOnes(layers.gconv1.node_sfc)
    /\ FixtureOnes(layers.gconv1.edge_fc)
    /\ CICGraph.A = FixtureA /\ CICGraph.x = FixtureNode /\ CICGraph.e = FixtureEdge

\* C4: on the regression fixture (batch 1, N = 2, every width 1, weights 1,
\* biases 0, A = [[0,1],[1,0]], emb_node = [[1],[2]], emb_edge =
\* [[[0],[1]],[[1],[0]]]) mode 1 returns the node embedding [[3],[3]] and
\* the edge embedding [[[0],[1]],[[1],[0]]].
C4_Fixture ==
    IsFixtureCall =>
        ret = Return("tuple",
                     <<[shape |-> <<1, 2, 1>>, data |-> <<I(3), I(3)>>],
                       [shape |-> <<1, 2, 2, 1>>, data |-> <<I(0), I(1), I(1), I(0)>>]>>)

C4_Witness == IsFixtureCall /\ Returned(ret)

\* exp(-sum_f (nx[b,i,f] - nx[b,j,f])^2)
Kernel(nx, b, i, j) ==
    NumExp(NumNeg(SumSeq([f \in 1..nx.shape[3] |->
        LET d == NumSub(At(nx, <<b, i, f>>), At(nx, <<b, j, f>>)) IN NumMul(d, d)])))

\* C5: in mode 2 the distance tensor has shape (batch, N, N), d_x[b,i,j] is
\* exp(-squared Euclidean distance of the node_fc features of i and j), it
\* is symmetric and its diagonal is 1.
C5_Distance ==
    (IsCIC({2}) /\ Returned(ret)) =>
        \A nx \in {Dense(layers.gconv1.node_fc, CICGraph.x)}, d \in {ret.items[3]} :
            /\ Len(ret.items) = 3
            /\ d.shape = <<cfg.bs, cfg.n, cfg.n>>
            /\ \A b \in 1..cfg.bs, i \in 1..cfg.n, j \in 1..cfg.n :
                /\ At(d, <<b, i, j>>) = Kernel(nx, b, i, j)
                /\ At(d, <<b, i, j>>) = At(d, <<b, j, i>>)
                /\ At(d, <<b, i, i>>) = One

\* a mode 2 call whose distance tensor has an entry other than 1
C5_Witness ==
    /\ IsCIC({2}) /\ Returned(ret)
    /\ cfg.n = 2 /\ cfg.out_features = 2
    /\ \E p \in 1..Len(ret.items[3].data) : ret.items[3].data[p] # One

\* a returned pair (node, edge)
IsPair(r) == Returned(r) /\ r.kind = "tuple" /\ Len(r.items) = 2

\* C6: Siamese_ChannelIndependentConv with only a first graph returns the
\* pair (node1, edge1) of gconv1 on that graph and does not apply gconv2;
\* with two graphs it returns (node1, node2, edge1, edge2), node1 and edge1
\* from gconv1 on the first graph, node2 and edge2 from gconv2, with its own
\* parameters, on the second.  It returns exactly when each layer it
\* applies returns a pair.
C6_SiameseCIC ==
    call.op = "Siamese_CIC" =>
        \A r1 \in {CICApply(layers.gconv1, CICArg(1, call.a[1]))} :
            IF call.a[2] = -1 THEN
                /\ applied = <<"gconv1">>
                /\ Returned(ret) <=> IsPair(r1)
                /\ IsPair(r1) => ret = Return("tuple", <<r1.items[1], r1.items[2]>>)
            ELSE
                \A r2 \in {CICApply(layers.gconv2, CICArg(2, call.a[2]))} :
                    /\ applied = IF IsPair(r1) THEN <<"gconv1", "gconv2">> ELSE <<"gconv1">>
                    /\ Returned(ret) <=> (IsPair(r1) /\ IsPair(r2))
                    /\ (IsPair(r1) /\ IsPair(r2)) =>
                            ret = Return("tuple", <<r1.items[1], r2.items[1],
                                                    r1.items[2], r2.items[2]>>)

\* a call with two graphs that returned, where gconv1 on the second graph
\* would have given another node embedding than gconv2 gave
C6_Witness ==
    /\ call.op = "Siamese_CIC" /\ call.a[2] = 0 /\ Returned(ret)
    /\ Len(ret.items) = 4
    /\ cfg.n = 2
    /\ \A r \in {CICApply(layers.gconv1, CICArg(2, 0))} :
            Returned(r) /\ r.items[1] # ret.items[2]

\* Gconv applied to the j-th input of the last call of Siamese_Gconv
SiameseGconvExpected(j) ==
    LET g == SiameseGconvArgs(call.a[1], call.a[2], call.a[3])[j]
    IN  GconvForward(layers.gconv, g[1], g[2], IF Len(g) >= 3 THEN g[3] ELSE TRUE)

\* C7: Siamese_Gconv applies the one shared Gconv to every input: with one
\* input it returns that result itself, with k >= 2 inputs a list of k
\* results, the j-th being Gconv on the j-th input; equal inputs give equal
\* results.
C7_SiameseGconv ==
    call.op = "Siamese_Gconv" =>
        \A gs \in {SiameseGconvArgs(call.a[1], call.a[2], call.a[3])} :
            /\ Returned(ret)
            /\ applied = [j \in 1..Len(gs) |-> <<"gconv", j>>]
            /\ Len(gs) = 1 => (ret.kind = "tensor" /\ ret.items = <<SiameseGconvExpected(1)>>)
            /\ Len(gs) >= 2 =>
                /\ ret.kind = "list"
                /\ Len(ret.items) = Len(gs)
                /\ \A j \in 1..Len(gs) : ret.items[j] = SiameseGconvExpected(j)
                /\ \A i, j \in 1..Len(gs) : gs[i] = gs[j] => ret.items[i] = ret.items[j]

\* a call with two different graphs whose two results differ
C7_Witness ==
    /\ call.op = "Siamese_Gconv" /\ call.a[1] >= 2 /\ call.a[2] = 2
    /\ Returned(ret) /\ ret.kind = "list"
    /\ ret.items[1] # ret.items[2]

\* the 1-based position of python axis dim in a tensor of rank r
AxisOf(dim, r) == (IF dim < 0 THEN dim + r ELSE dim) + 1

\* the indices of the slice along axis ax through idx, and the sum over it
SliceSum(t, ax, idx) ==
    SumSeq([l \in 1..t.shape[ax] |-> At(t, [idx EXCEPT ![ax] = l])])

NonNegative(t) == \A p \in 1..Len(t.data) : t.data[p][1] >= 0

\* every slice of A along ax sums to 1 in t if its sum in A exceeds eps, and
\* is A / eps elementwise if not
Normalized(A, t, ax) ==
    /\ t.shape = A.shape
    /\ \A p \in 1..Len(A.data) :
        \A idx \in {Unflatten(A.shape, p)} :
            IF NumLess(Eps, SliceSum(A, ax, idx))
            THEN SliceSum(t, ax, idx) = One
            ELSE At(t, idx) = NumDiv(At(A, idx), Eps)

\* what C8 says of a direct call of l1norm
L1normContract ==
    call.op = "l1norm" =>
        \A A \in {L1Source(call.a[1])} :
            NonNegative(A) =>
                /\ Returned(ret)
                /\ Normalized(A, ret.items[1], AxisOf(call.a[2], Rank(A)))
                /\ \A p \in 1..Len(A.data) :
                    \A idx \in {Unflatten(A.shape, p)} :
                        SliceSum(A, AxisOf(call.a[2], Rank(A)), idx) = Zero
                            => At(ret.items[1], idx) = Zero

\* the sum of column j of batch b of an adjacency
ColumnSum(A, b, j) == SliceSum(A, 2, <<b, 1, j>>)

\* C8 (as amended): for a non-negative tensor A, l1norm(A, dim) has the
\* shape of A; each slice along dim sums to 1 where its original sum
\* exceeded eps and is A divided elementwise by eps elsewhere, so an
\* all-zero slice stays zero; with the dim=-2 of Gconv, every column of a
\* normalized adjacency whose sum exceeded eps sums to 1.
C8_L1norm ==
    /\ L1normContract
    /\ call.op = "Gconv" =>
        \A A \in {GconvArg(call.a[1], call.a[2])[1]} :
            \A t \in {GconvAdjacency(A, TRUE)} :
                \A b \in 1..A.shape[1], j \in 1..A.shape[3] :
                    NumLess(Eps, ColumnSum(A, b, j)) => ColumnSum(t, b, j) = One

\* C8 (as stated): as above, but with the dim=-2 of Gconv every column of
\* a normalized adjacency with a positive sum sums to 1.
C8_PositiveColumns ==
    /\ L1normContract
    /\ call.op = "Gconv" =>
        \A A \in {GconvArg(call.a[1], call.a[2])[1]} :
            \A t \in {GconvAdjacency(A, TRUE)} :
                \A b \in 1..A.shape[1], j \in 1..A.shape[3] :
                    NumPos(ColumnSum(A, b, j)) => ColumnSum(t, b, j) = One

\* a call on the eps-sized tensor in which one slice had a positive sum
\* below eps and another a sum above eps
C8_Witness ==
    /\ call.op = "l1norm" /\ call.a[1] = 2 /\ Returned(ret)
    /\ \E p \in 1..Len(soft.data) :
        \A s \in {SliceSum(soft, AxisOf(call.a[2], 3), Unflatten(soft.shape, p))} :
            NumPos(s) /\ NumLess(s, Eps)
    /\ \E p \in 1..Len(soft.data) :
        NumLess(Eps, SliceSum(soft, AxisOf(call.a[2], 3), Unflatten(soft.shape, p)))

\* C9: with the identity adjacency Gconv(A, x) is ReLU(a_fc(x)) +
\* ReLU(u_fc(x)), with norm=true and with norm=false; in general
\* Gconv(A, x, norm=true) is what norm=false gives on l1norm(A, -2): the
\* two settings differ only in the adjacency of the neighbour branch.
C9_Gconv ==
    call.op = "Gconv" =>
        \A g \in {GconvArg(call.a[1], call.a[2])} :
            \A ax \in {ReLU(Dense(layers.gconv.a_fc, g[2]))},
               ux \in {ReLU(Dense(layers.gconv.u_fc, g[2]))} :
                /\ Returned(ret)
                /\ ret.items[1] =
                    Add(BatchMatMul(IF call.a[2] = 0 THEN g[1] ELSE l1norm(g[1], -2, Eps), ax),
                        ux)
                /\ g[1] = IdentityAdj(cfg) => ret.items[1] = Add(ax, ux)

\* a call with the identity adjacency on two nodes, norm left at True, and
\* a result that is not zero
C9_Witness ==
    /\ call.op = "Gconv" /\ call.a[1] = 3 /\ call.a[2] = -1
    /\ cfg.n = 2 /\ Returned(ret)
    /\ \E p \in 1..Len(ret.items[1].data) : ret.items[1].data[p] # Zero

\* how a call with these arguments ends, computed from the layers and
\* tensors as they are now
Outcome(c) ==
    IF c.op = "l1norm" THEN L1normOut(c.a[1], c.a[2])
    ELSE IF c.op = "Gconv" THEN GconvOut(c.a[1], c.a[2])
    ELSE IF c.op = "CIC" THEN CICOut(c.a[1], c.a[2])
    ELSE IF c.op = "Siamese_Gconv" THEN SiameseGconvOut(c.a[1], c.a[2], c.a[3])
    ELSE IF c.op = "Siamese_CIC" THEN SiameseCICOut(c.a[1], c.a[2])
    ELSE [ret |-> NoCall, applied |-> <<>>]

\* the parameters and the caller's tensors are as they were built
AsBuilt ==
    /\ layers = LayersInit(cfg, seed)
    /\ graphs = GraphsInput(cfg, seed)
    /\ soft = SoftInput(cfg, seed)

\* C10: after any sequence of forward calls the parameters of every layer
\* and the caller's tensors are as they were at construction, no call
\* changes them, and the result of the last call is the one its arguments
\* and the construction-time parameters determine.
C10_Frame ==
    /\ [](AsBuilt /\ \A o \in {Outcome(call)} : ret = o.ret /\ applied = o.applied)
    /\ [][UNCHANGED <<cfg, seed, layers, graphs, soft>>]_vars

\* a call of the twin layer on two graphs has returned
C10_Witness ==
    /\ call.op = "Siamese_CIC" /\ call.a[2] = 0 /\ Returned(ret)
    /\ seed > 0 /\ cfg.n = 2

====
